---- MODULE Spec2Model ----
(***************************************************************************)
(* A model of packnback's asymcrypt crate (rust/asymcrypt/src/lib.rs) and  *)
(* of the tweetnacl wrapper it uses (rust/tweetnacl/src/lib.rs): the       *)
(* header codec, the nonce counter, key (de)serialisation with the         *)
(* zeroing destructors of the secret key types, and the chunked encrypt    *)
(* loop.  The primitive itself (crypto_box) is symbolic: a sealed box is   *)
(* the record of the arguments it was computed from.                       *)
(*                                                                         *)
(* Byte sequences are 1-based here; index x of the source is x + 1.        *)
(***************************************************************************)
EXTENDS Integers, Sequences, FiniteSets, TLC

VARIABLES
    \* ---- header codec harness
    h_pc,          \* "idle" | "start" | "read" | "expect" | "written" | "readback"
    h_in,          \* bytes held by the reader r
    h_pos,         \* bytes of h_in consumed so far
    h_expect,      \* val_type handed to expect_header / write_header
    h_out,         \* bytes received by the writer w
    h_res,         \* result of the last header operation
    \* ---- nonce harness
    nn_pc,         \* "idle" | "run"
    nn,            \* the CryptoBoxNonce under test (bytes)
    nn_prev,       \* its bytes before the last inc
    nn_incs,       \* number of incs applied
    \* ---- Key harness
    k_pc,          \* "idle" | "live" | "written" | "read" | "readfail" | "dropped"
    key,           \* the caller's Box<Key>
    k_out,         \* bytes received by the writer w
    k_writer,      \* "none" | "Key" | "PublicKey": whose write filled k_out
    k_wres,        \* result of Key::write / PublicKey::write
    key2,          \* the Box<Key> returned by read_boxed_from, or NoKey
    k_res,         \* result of Key::read_boxed_from
    \* ---- encrypt
    pc,            \* position inside encrypt
    in_len,        \* in_data: total bytes the source holds
    in_pos,        \* in_data: bytes delivered so far
    in_kind,       \* in_data: "plain" | "flaky" | "lying"
    short_reads,   \* reads that came short so far
    zero_reads,    \* zero-byte reads a flaky source gave while data remained
    plain_text,    \* [head, data]: zero padding + size bytes, and the data region
    cipher_text,   \* ZeroBox or a sealed box
    nonce,         \* current nonce bytes
    nonce0,        \* the bytes CryptoBoxNonce::new() produced
    ephemeral_pk,
    ephemeral_sk,
    toKey,         \* recipient's box_pk
    n_acc,         \* n of read_exact_or_eof
    out_data,      \* what the sink received, in order
    boxed,         \* the crypto_box calls made, in order
    result,        \* NoResult | Ok | Err(e)
    io_err,        \* the error the failing read/write raised, or NoErr
    io_site,       \* which call raised it: "header" | "pk" | "nonce" | "read" | "record"
    panicked,      \* the assertion or bounds check that failed, or "none"
    \* ---- shared
    released       \* secret buffers at the moment their memory was released

hdrVars   == <<h_pc, h_in, h_pos, h_expect, h_out, h_res>>
nonceVars == <<nn_pc, nn, nn_prev, nn_incs>>
keyVars   == <<k_pc, key, k_out, k_writer, k_wres, key2, k_res>>
encVars   == <<pc, in_len, in_pos, in_kind, short_reads, zero_reads, plain_text,
               cipher_text, nonce, nonce0, ephemeral_pk, ephemeral_sk, toKey,
               n_acc, out_data, boxed, result, io_err, io_site, panicked>>
vars      == <<hdrVars, nonceVars, keyVars, encVars, released>>

(***************************************************************************)
(* Bounds of the exploration (not program constants).                      *)
(***************************************************************************)
\* nonces under test vary in their first VaryLen bytes
VaryLen == 3
\* incs applied to one nonce in the nonce harness
MaxIncs == 2
\* sources hold up to MaxChunks full chunks plus a remainder
MaxChunks == 2
\* short reads a source may give during one call of encrypt
MaxShortReads == 2
\* zero-byte reads a flaky source may give while data remains
MaxZeroReads == 1

(***************************************************************************)
(* Program constants.                                                      *)
(***************************************************************************)
CRYPTO_BOX_ZEROBYTES    == 32
CRYPTO_BOX_BOXZEROBYTES == 16
NONCEBYTES              == 24
BOX_PUBLICKEYBYTES      == 32
BOX_SECRETKEYBYTES      == 32
SIGN_PUBLICKEYBYTES     == 32
SIGN_SECRETKEYBYTES     == 64

KEYHEADER        == 0
PUBKEYHEADER     == 1
SIGNATUREHEADER  == 2
CIPHERTEXTHEADER == 3
HEADEREND        == 4
MAGIC_LEN        == 9
READ_SZ          == 16384
BUF_SZ           == READ_SZ + CRYPTO_BOX_ZEROBYTES + 2

\* "asymcrypt".as_bytes()
magic == <<97, 115, 121, 109, 99, 114, 121, 112, 116>>

Zeros(n) == [i \in 1..n |-> 0]

(***************************************************************************)
(* Results and errors.                                                     *)
(***************************************************************************)
\* an error value: its kind and, for AsymcryptError::IOError, the kind of
\* the std::io::Error it wraps
NoErr    == [kind |-> "none", cause |-> "none"]
\* a std::io::Error
IoErr(k) == [kind |-> k, cause |-> "none"]
\* the AsymcryptError variants that carry nothing
AErr(k)  == [kind |-> k, cause |-> "none"]
NoResult == [tag |-> "none", val |-> 0, err |-> NoErr]
Ok(v)    == [tag |-> "Ok", val |-> v, err |-> NoErr]
Err(e)   == [tag |-> "Err", val |-> 0, err |-> e]
\* impl From<std::io::Error> for AsymcryptError
IOError(e) == [kind |-> "IOError", cause |-> e.kind]

(***************************************************************************)
(* u16 <-> bytes                                                           *)
(***************************************************************************)
\* faulty variant: low byte first
u16_be_bytes_swapped(v) == <<v % 256, (v \div 256) % 256>>
u16_be_bytes(v) == <<(v \div 256) % 256, v % 256>>

be_bytes_to_u16(hi, lo) == ((hi * 256) % 65536) + lo

\* faulty variant: t <= HEADEREND
u16_to_header_type_inclusive(t) ==
    IF t >= KEYHEADER /\ t <= HEADEREND THEN <<"Some", t>> ELSE <<"None", 0>>
u16_to_header_type(t) ==
    IF t >= KEYHEADER /\ t < HEADEREND THEN <<"Some", t>> ELSE <<"None", 0>>

(***************************************************************************)
(* std::io::Read over an in-memory byte sequence: read_exact(n) at         *)
(* position pos either yields the next n bytes or fails with UnexpectedEof *)
(* having consumed what was left.                                          *)
(***************************************************************************)
read_exact(buf, pos, n) ==
    IF pos + n <= Len(buf)
    THEN [ok |-> TRUE, bytes |-> SubSeq(buf, pos + 1, pos + n), pos |-> pos + n,
          err |-> NoErr]
    ELSE [ok |-> FALSE, bytes |-> SubSeq(buf, pos + 1, Len(buf)), pos |-> Len(buf),
          err |-> IoErr("UnexpectedEof")]

(***************************************************************************)
(* std::io::Write::write_all: every byte is accepted, or the sink accepts  *)
(* only the first j < Len(bytes) of them and the call fails with e.        *)
(***************************************************************************)
WriteErrors == {IoErr("BrokenPipe"), IoErr("WriteZero")}
ReadErrors  == {IoErr("ConnectionReset"), IoErr("Interrupted")}
PartialCounts(len) == {j \in {0, 1, len - 1} : 0 <= j /\ j < len}
WriteOk == [ok |-> TRUE, n |-> 0, err |-> NoErr]
WriteOutcomes(len) ==
    {WriteOk} \cup
    {[ok |-> FALSE, n |-> j, err |-> e] : j \in PartialCounts(len), e \in WriteErrors}
Accepted(bytes, o) == IF o.ok THEN bytes ELSE SubSeq(bytes, 1, o.n)

(***************************************************************************)
(* write_header: two write_all calls, the magic and then version + type.   *)
(* o1, o2 are the sink's outcomes for the two calls.  The result is the    *)
(* bytes the sink received and the io::Result.                             *)
(***************************************************************************)
\* faulty variant: version and type written before the magic
write_header_type_first(val_type, o1, o2) ==
    LET ver == u16_be_bytes(2)
        val == u16_be_bytes(val_type % 65536)
        ver_and_val == <<ver[1], ver[2], val[1], val[2]>>
    IN  IF ~o1.ok
        THEN [bytes |-> Accepted(ver_and_val, o1), res |-> Err(o1.err)]
        ELSE IF ~o2.ok
        THEN [bytes |-> ver_and_val \o Accepted(magic, o2), res |-> Err(o2.err)]
        ELSE [bytes |-> ver_and_val \o magic, res |-> Ok(0)]

write_header(val_type, o1, o2) ==
    LET ver == u16_be_bytes(2)
        val == u16_be_bytes(val_type % 65536)
        ver_and_val == <<ver[1], ver[2], val[1], val[2]>>
    IN  IF ~o1.ok
        THEN [bytes |-> Accepted(magic, o1), res |-> Err(o1.err)]
        ELSE IF ~o2.ok
        THEN [bytes |-> magic \o Accepted(ver_and_val, o2), res |-> Err(o2.err)]
        ELSE [bytes |-> magic \o ver_and_val, res |-> Ok(0)]

(***************************************************************************)
(* read_header / expect_header on the reader (buf, pos): the result and    *)
(* the reader's new position.                                              *)
(***************************************************************************)
read_header(buf, pos) ==
    LET m == read_exact(buf, pos, MAGIC_LEN) IN
    IF ~m.ok THEN [res |-> Err(IOError(m.err)), pos |-> m.pos]
    ELSE IF magic # m.bytes THEN [res |-> Err(AErr("InvalidDataError")), pos |-> m.pos]
    ELSE
      LET v == read_exact(buf, m.pos, 4) IN
      IF ~v.ok THEN [res |-> Err(IOError(v.err)), pos |-> v.pos]
      ELSE
        LET ver      == be_bytes_to_u16(v.bytes[1], v.bytes[2])
            val_type == be_bytes_to_u16(v.bytes[3], v.bytes[4])
            t        == u16_to_header_type(val_type)
        IN  IF ver = 2 /\ t[1] = "Some" THEN [res |-> Ok(t[2]), pos |-> v.pos]
            ELSE IF ver = 2 THEN [res |-> Err(AErr("InvalidDataError")), pos |-> v.pos]
            ELSE [res |-> Err(AErr("UnsupportedVersionError")), pos |-> v.pos]

expect_header(buf, pos, val_type) ==
    LET r == read_header(buf, pos) IN
    IF r.res.tag = "Err" THEN r
    ELSE IF r.res.val = val_type THEN [res |-> Ok(0), pos |-> r.pos]
    ELSE [res |-> Err(AErr("UnexpectedDataTypeError")), pos |-> r.pos]

(***************************************************************************)
(* CryptoBoxNonce::inc: for x in 0..len, add one to byte x (wrapping) and  *)
(* stop at the first byte that did not wrap to zero.                       *)
(***************************************************************************)
RECURSIVE inc_from(_, _)
inc_from(bytes, x) ==
    IF x > Len(bytes) THEN bytes
    ELSE LET b == (bytes[x] + 1) % 256
             next == [bytes EXCEPT ![x] = b]
         IN  IF b # 0 THEN next ELSE inc_from(next, x + 1)

\* faulty variants: no carry into the next byte; no increment at all
inc_no_carry(bytes) == [bytes EXCEPT ![1] = (bytes[1] + 1) % 256]
inc_stuck(bytes) == bytes
inc(bytes) == inc_from(bytes, 1)

(***************************************************************************)
(* Idle values: each specification below drives one group of variables     *)
(* and leaves the others at these values.                                  *)
(***************************************************************************)
NoKey == [box_sk |-> <<>>, box_pk |-> <<>>, sign_sk |-> <<>>, sign_pk |-> <<>>]
ZeroBox == [sealed |-> FALSE, m |-> <<>>, n |-> <<>>, pk |-> <<>>, sk |-> <<>>]

IdleHdr ==
    /\ h_pc = "idle" /\ h_in = <<>> /\ h_pos = 0 /\ h_expect = 0
    /\ h_out = <<>> /\ h_res = NoResult
IdleNonce ==
    /\ nn_pc = "idle" /\ nn = <<>> /\ nn_prev = <<>> /\ nn_incs = 0
IdleKey ==
    /\ k_pc = "idle" /\ key = NoKey /\ k_out = <<>> /\ k_writer = "none"
    /\ k_wres = NoResult
    /\ key2 = NoKey /\ k_res = NoResult
IdleEnc ==
    /\ pc = "idle" /\ in_len = 0 /\ in_pos = 0 /\ in_kind = "plain"
    /\ short_reads = 0 /\ zero_reads = 0
    /\ plain_text = [head |-> <<>>, data |-> <<>>]
    /\ cipher_text = ZeroBox
    /\ nonce = <<>> /\ nonce0 = <<>> /\ ephemeral_pk = <<>> /\ ephemeral_sk = <<>>
    /\ toKey = <<>> /\ n_acc = 0 /\ out_data = [pre |-> <<>>, recs |-> <<>>]
    /\ boxed = <<>>
    /\ result = NoResult /\ io_err = NoErr /\ io_site = "none" /\ panicked = "none"

(***************************************************************************)
(* Nonce harness: a nonce as CryptoBoxNonce::new() may produce it (the     *)
(* first VaryLen bytes drawn from SampleBytes, then 0xff up to a break     *)
(* position, then TailByte), and inc applied to it.                        *)
(***************************************************************************)
SampleBytes == {0, 1, 254, 255}
TailByte    == 3
BreakAt     == {VaryLen + 1, NONCEBYTES \div 2, NONCEBYTES, NONCEBYTES + 1}
NonceSamples ==
    {[i \in 1..NONCEBYTES |->
        IF i <= VaryLen THEN p[i] ELSE IF i < b THEN 255 ELSE TailByte] :
        p \in [1..VaryLen -> SampleBytes], b \in BreakAt}

InitNonce ==
    /\ nn_pc = "run" /\ nn \in NonceSamples /\ nn_prev = nn /\ nn_incs = 0
    /\ IdleHdr /\ IdleKey /\ IdleEnc /\ released = {}

NonceInc ==
    /\ nn_pc = "run" /\ nn_incs < MaxIncs
    /\ nn_prev' = nn
    /\ nn' = inc(nn)
    /\ nn_incs' = nn_incs + 1
    /\ UNCHANGED <<nn_pc, hdrVars, keyVars, encVars, released>>

NextNonce == NonceInc
SpecNonce == InitNonce /\ [][NextNonce]_vars

(***************************************************************************)
(* Header harness: a reader holding h_in and a type tag h_expect; one of   *)
(* read_header, expect_header or write_header is applied, and what         *)
(* write_header wrote is read back by read_header.                         *)
(***************************************************************************)
MagicVariants ==
    {magic, [magic EXCEPT ![1] = 65], [magic EXCEPT ![5] = 100],
     [magic EXCEPT ![9] = 0]}
HiBytes == {0, 1, 255}
LoBytes == {0, 1, 2, 3, 4, 255}
FullHeaders ==
    {m \o <<vh, vl, th, tl>> :
        m \in MagicVariants, vh \in HiBytes, vl \in LoBytes,
        th \in HiBytes, tl \in LoBytes}
ShortHeaders ==
    {SubSeq(magic \o <<0, 2, 0, 1>>, 1, l) : l \in {0, 5, 9, 12}}
LongHeaders ==
    {magic \o <<0, 2, 0, t, 7, 7>> : t \in 0..4}
HeaderInputs == FullHeaders \cup ShortHeaders \cup LongHeaders

InitHdr ==
    /\ h_pc = "start" /\ h_in \in HeaderInputs /\ h_pos = 0
    /\ h_expect \in (KEYHEADER..HEADEREND) \cup {258, 65535}
    /\ h_out = <<>> /\ h_res = NoResult
    /\ IdleNonce /\ IdleKey /\ IdleEnc /\ released = {}

HdrReadHeader ==
    /\ h_pc = "start"
    /\ LET r == read_header(h_in, h_pos) IN
         /\ h_res' = r.res
         /\ h_pos' = r.pos
    /\ h_pc' = "read"
    /\ UNCHANGED <<h_in, h_expect, h_out, nonceVars, keyVars, encVars, released>>

HdrExpectHeader ==
    /\ h_pc = "start"
    /\ LET r == expect_header(h_in, h_pos, h_expect) IN
         /\ h_res' = r.res
         /\ h_pos' = r.pos
    /\ h_pc' = "expect"
    /\ UNCHANGED <<h_in, h_expect, h_out, nonceVars, keyVars, encVars, released>>

HdrWriteHeader ==
    /\ h_pc = "start"
    /\ h_expect < HEADEREND
    /\ \E o1 \in WriteOutcomes(MAGIC_LEN), o2 \in WriteOutcomes(4) :
         LET w == write_header(h_expect, o1, o2) IN
           /\ h_out' = h_out \o w.bytes
           /\ h_res' = w.res
    /\ h_pc' = "written"
    /\ UNCHANGED <<h_in, h_pos, h_expect, nonceVars, keyVars, encVars, released>>

\* a reader over what the sink received, followed by the artifact's body
HdrReadBack ==
    /\ h_pc = "written"
    /\ \E body \in {<<>>, <<7, 7>>} :
         LET buf == h_out \o body
             r   == read_header(buf, 0)
         IN  /\ h_in' = buf
             /\ h_res' = r.res
             /\ h_pos' = r.pos
    \* h_res is still write_header's result here
    /\ h_pc' = IF h_res.tag = "Ok" THEN "readback" ELSE "readback_partial"
    /\ UNCHANGED <<h_expect, h_out, nonceVars, keyVars, encVars, released>>

NextHdr == HdrReadHeader \/ HdrExpectHeader \/ HdrWriteHeader \/ HdrReadBack
SpecHdr == InitHdr /\ [][NextHdr]_vars

(***************************************************************************)
(* Claims about the nonce counter and the header codec.                    *)
(***************************************************************************)
\* number of leading 0xff bytes of b
LeadFF(b) ==
    CHOOSE k \in 0..Len(b) :
        /\ \A i \in 1..k : b[i] = 255
        /\ (k = Len(b) \/ b[k + 1] # 255)
\* the first three bytes of b as a little-endian number
LE3(b) == b[1] + 256 * b[2] + 65536 * b[3]

\* C8: inc adds one to the nonce read as a little-endian counter, modulo
\* 256^len: every leading 0xff byte becomes 0x00, the first byte that is not
\* 0xff is increased by one, the bytes after it are unchanged, and all-0xff
\* becomes all-zero; [ff, ff, fe, 03, ...] becomes [00, 00, ff, 03, ...].
C8_IncLittleEndian ==
    (nn_pc = "run" /\ nn_incs > 0) =>
        LET k == LeadFF(nn_prev) IN
        /\ Len(nn) = NONCEBYTES /\ Len(nn_prev) = NONCEBYTES
        /\ \A i \in 1..NONCEBYTES :
              nn[i] = IF i <= k THEN 0
                      ELSE IF i = k + 1 THEN nn_prev[i] + 1
                      ELSE nn_prev[i]
        /\ (k < 3 => LE3(nn) = LE3(nn_prev) + 1)
        /\ (k >= 3 => LE3(nn) = 0)
        /\ (SubSeq(nn_prev, 1, 4) = <<255, 255, 254, 3>>
              => SubSeq(nn, 1, 4) = <<0, 0, 255, 3>>)

C8_Witness ==
    /\ nn_pc = "run" /\ nn_incs = 1
    /\ nn_prev = [i \in 1..NONCEBYTES |-> 255]
    /\ nn = Zeros(NONCEBYTES)

\* C3: the outcome of expect_header on a 13-byte header is fixed by the
\* table magic mismatch -> InvalidData, version # 2 -> UnsupportedVersion,
\* type outside 0..3 -> InvalidData, type # expected -> UnexpectedDataType,
\* else Ok; read_header returns the parsed type in exactly the last two cases.
C3_HeaderTable ==
    (h_pc \in {"expect", "read"} /\ Len(h_in) >= 13) =>
        LET mg  == SubSeq(h_in, 1, 9)
            ver == 256 * h_in[10] + h_in[11]
            ty  == 256 * h_in[12] + h_in[13]
        IN  /\ h_pc = "expect" =>
                h_res = IF mg # magic THEN Err(AErr("InvalidDataError"))
                        ELSE IF ver # 2 THEN Err(AErr("UnsupportedVersionError"))
                        ELSE IF ty \notin 0..3 THEN Err(AErr("InvalidDataError"))
                        ELSE IF ty # h_expect THEN Err(AErr("UnexpectedDataTypeError"))
                        ELSE Ok(0)
            /\ h_pc = "read" =>
                /\ h_res.tag = "Ok" <=> (mg = magic /\ ver = 2 /\ ty \in 0..3)
                /\ h_res.tag = "Ok" => h_res.val = ty

C3_Witness ==
    /\ h_pc = "expect" /\ Len(h_in) = 13
    /\ SubSeq(h_in, 1, 9) = magic
    /\ h_res = Err(AErr("UnexpectedDataTypeError"))

\* C9: write_header(t) on a non-failing sink writes exactly the 13 bytes
\* "asymcrypt", 0x00 0x02, t big-endian, and read_header on those bytes
\* consumes exactly 13 bytes and returns t.
C9_HeaderRoundTrip ==
    /\ (h_pc = "written" /\ h_res.tag = "Ok") =>
          /\ Len(h_out) = 13
          /\ h_out = magic \o <<0, 2, h_expect \div 256, h_expect % 256>>
    /\ h_pc = "readback" =>
          /\ SubSeq(h_in, 1, 13) = h_out
          /\ h_res = Ok(h_expect)
          /\ h_pos = 13

C9_Witness ==
    /\ h_pc = "readback" /\ h_expect = CIPHERTEXTHEADER /\ Len(h_in) = 15
    /\ h_res = Ok(CIPHERTEXTHEADER)

(***************************************************************************)
(* Secret key types and their destructors.  Dropping a Key drops its       *)
(* fields; CryptoBoxSk and CryptoSignSk overwrite their bytes with zero in *)
(* drop, the public key types have no destructor.  A released buffer is    *)
(* recorded with the bytes it held when its memory was given back.         *)
(***************************************************************************)
\* faulty variant: the overwrite is missing
CryptoBoxSk_drop_noop(bytes) == bytes
CryptoBoxSk_drop(bytes) == Zeros(BOX_SECRETKEYBYTES)

CryptoSignSk_drop(bytes) == Zeros(SIGN_SECRETKEYBYTES)

Released(owner, ty, bytes) == [owner |-> owner, ty |-> ty, bytes |-> bytes]

\* drop of a Box<Key>: the fields' destructors run, then the box is freed
Key_drop(owner, k) ==
    {Released(owner, "CryptoBoxSk", CryptoBoxSk_drop(k.box_sk)),
     Released(owner, "CryptoSignSk", CryptoSignSk_drop(k.sign_sk))}

\* Box::<Key>::new(Default::default())
Key_default ==
    [box_sk  |-> Zeros(BOX_SECRETKEYBYTES),
     box_pk  |-> Zeros(BOX_PUBLICKEYBYTES),
     sign_sk |-> Zeros(SIGN_SECRETKEYBYTES),
     sign_pk |-> Zeros(SIGN_PUBLICKEYBYTES)]

\* key bytes as the keypair generators may produce them, named by a seed
KeyBytes(seed, len) == [i \in 1..len |-> (16 * seed + i) % 256]
KeySeeds == {1, 2}
\* Key::new()
Keys ==
    {[box_sk  |-> KeyBytes(a, BOX_SECRETKEYBYTES),
      box_pk  |-> KeyBytes(b, BOX_PUBLICKEYBYTES),
      sign_sk |-> KeyBytes(c, SIGN_SECRETKEYBYTES),
      sign_pk |-> KeyBytes(d, SIGN_PUBLICKEYBYTES)] :
        a \in KeySeeds, b \in KeySeeds, c \in KeySeeds, d \in KeySeeds}

\* Key::pub_key
pub_key(k) == [box_pk |-> k.box_pk, sign_pk |-> k.sign_pk]

(***************************************************************************)
(* A run of write_all calls on the fields in order: call number f fails    *)
(* with outcome o (f = 0: none fails), the calls before it succeed and the *)
(* calls after it are never made.                                          *)
(***************************************************************************)
RECURSIVE write_all_each(_, _, _, _)
write_all_each(acc, fields, f, o) ==
    IF fields = <<>> THEN [bytes |-> acc, res |-> Ok(0)]
    ELSE IF f = 1
    THEN [bytes |-> acc \o Accepted(Head(fields), o), res |-> Err(o.err)]
    ELSE write_all_each(acc \o Head(fields), Tail(fields), f - 1, o)

OutcomeAt(f, i, o) == IF f = i THEN o ELSE WriteOk

\* Key::write
Key_write(k, f, o) ==
    LET h == write_header(KEYHEADER, OutcomeAt(f, 1, o), OutcomeAt(f, 2, o)) IN
    IF h.res.tag = "Err" THEN h
    ELSE write_all_each(h.bytes, <<k.box_pk, k.box_sk, k.sign_pk, k.sign_sk>>,
                        f - 2, o)

\* PublicKey::write
PublicKey_write(p, f, o) ==
    LET h == write_header(PUBKEYHEADER, OutcomeAt(f, 1, o), OutcomeAt(f, 2, o)) IN
    IF h.res.tag = "Err" THEN h
    ELSE write_all_each(h.bytes, <<p.box_pk, p.sign_pk>>, f - 2, o)

\* lengths of the buffers the write_all calls of Key::write are given
KeyPartLen(f) ==
    CASE f = 1 -> MAGIC_LEN
      [] f = 2 -> 4
      [] f = 3 -> BOX_PUBLICKEYBYTES
      [] f = 4 -> BOX_SECRETKEYBYTES
      [] f = 5 -> SIGN_PUBLICKEYBYTES
      [] OTHER -> SIGN_SECRETKEYBYTES
PubKeyPartLen(f) ==
    CASE f = 1 -> MAGIC_LEN
      [] f = 2 -> 4
      [] f = 3 -> BOX_PUBLICKEYBYTES
      [] OTHER -> SIGN_PUBLICKEYBYTES

(***************************************************************************)
(* Key::read_boxed_from on a reader over buf.  A read_exact that fails     *)
(* leaves its buffer's contents unspecified: with `partial` the bytes that *)
(* were available are in it, without it the buffer is untouched.  The      *)
(* result carries the box as it is when the function returns (`k`), and    *)
(* whether it was allocated and dropped on the way out.                    *)
(***************************************************************************)
Fill(old, r, partial) ==
    IF r.ok THEN r.bytes
    ELSE IF partial
    THEN [i \in 1..Len(old) |-> IF i <= Len(r.bytes) THEN r.bytes[i] ELSE old[i]]
    ELSE old

ReadFail(r, k) == [res |-> Err(IOError(r.err)), k |-> k, dropped |-> TRUE]

\* the read_exact calls of read_boxed_from, one per field of `names`, in order
RECURSIVE read_fields(_, _, _, _, _)
read_fields(buf, pos, k, names, partial) ==
    IF names = <<>> THEN [res |-> Ok(0), k |-> k, dropped |-> FALSE]
    ELSE LET f  == Head(names)
             r  == read_exact(buf, pos, Len(k[f]))
             k1 == [k EXCEPT ![f] = Fill(k[f], r, partial)]
         IN  IF ~r.ok THEN ReadFail(r, k1)
             ELSE read_fields(buf, r.pos, k1, Tail(names), partial)

\* faulty variant: each secret key read before its public key
Key_read_boxed_from_sk_first(buf, partial) ==
    LET h == expect_header(buf, 0, KEYHEADER) IN
    IF h.res.tag = "Err" THEN [res |-> h.res, k |-> NoKey, dropped |-> FALSE]
    ELSE read_fields(buf, h.pos, Key_default,
                     <<"box_sk", "box_pk", "sign_sk", "sign_pk">>, partial)

Key_read_boxed_from(buf, partial) ==
    LET h == expect_header(buf, 0, KEYHEADER) IN
    IF h.res.tag = "Err" THEN [res |-> h.res, k |-> NoKey, dropped |-> FALSE]
    ELSE read_fields(buf, h.pos, Key_default,
                     <<"box_pk", "box_sk", "sign_pk", "sign_sk">>, partial)

(***************************************************************************)
(* Key harness: a generated Key is written (as a Key or as its PublicKey)  *)
(* to a sink that may fail, what the sink received is read back with       *)
(* Key::read_boxed_from, and the boxes are dropped when their owner's      *)
(* scope ends.                                                             *)
(***************************************************************************)
InitKey ==
    /\ k_pc = "live" /\ key \in Keys /\ k_out = <<>> /\ k_writer = "none"
    /\ k_wres = NoResult /\ key2 = NoKey /\ k_res = NoResult
    /\ IdleHdr /\ IdleNonce /\ IdleEnc /\ released = {}

KeyWrite ==
    /\ k_pc = "live"
    /\ \E f \in 0..6 :
         \E o \in IF f = 0 THEN {WriteOk} ELSE WriteOutcomes(KeyPartLen(f)) \ {WriteOk} :
           LET w == Key_write(key, f, o) IN
             /\ k_out' = k_out \o w.bytes
             /\ k_wres' = w.res
    /\ k_writer' = "Key"
    /\ k_pc' = "written"
    /\ UNCHANGED <<key, key2, k_res, hdrVars, nonceVars, encVars, released>>

PubKeyWrite ==
    /\ k_pc = "live"
    /\ \E f \in 0..4 :
         \E o \in IF f = 0 THEN {WriteOk} ELSE WriteOutcomes(PubKeyPartLen(f)) \ {WriteOk} :
           LET w == PublicKey_write(pub_key(key), f, o) IN
             /\ k_out' = k_out \o w.bytes
             /\ k_wres' = w.res
    /\ k_writer' = "PublicKey"
    /\ k_pc' = "written"
    /\ UNCHANGED <<key, key2, k_res, hdrVars, nonceVars, encVars, released>>

KeyReadBoxedFrom ==
    /\ k_pc = "written"
    /\ \E partial \in BOOLEAN :
         LET r == Key_read_boxed_from(k_out, partial) IN
           /\ k_res' = r.res
           /\ key2' = IF r.res.tag = "Ok" THEN r.k ELSE NoKey
           /\ released' = IF r.dropped THEN released \cup Key_drop("read_boxed_from", r.k)
                          ELSE released
           /\ k_pc' = IF r.res.tag = "Ok" THEN "read" ELSE "readfail"
    /\ UNCHANGED <<key, k_out, k_writer, k_wres, hdrVars, nonceVars, encVars>>

\* the owner's scope ends: the generated key and the one read back are dropped
KeyDrop ==
    /\ k_pc \in {"live", "written", "read", "readfail"}
    /\ released' = released \cup Key_drop("caller", key)
                     \cup (IF key2 # NoKey THEN Key_drop("caller", key2) ELSE {})
    /\ key' = NoKey
    /\ key2' = NoKey
    /\ k_pc' = "dropped"
    /\ UNCHANGED <<k_out, k_writer, k_wres, k_res, hdrVars, nonceVars, encVars>>

NextKey == KeyWrite \/ PubKeyWrite \/ KeyReadBoxedFrom \/ KeyDrop
SpecKey == InitKey /\ [][NextKey]_vars

\* C4: reading back with Key::read_boxed_from what Key::write wrote to a
\* non-failing sink succeeds and yields a Key with byte-identical box_pk,
\* box_sk, sign_pk and sign_sk; the body follows a header of type Key in
\* the order box_pk, box_sk, sign_pk, sign_sk.
C4_KeyRoundTrip ==
    /\ (k_pc = "written" /\ k_writer = "Key" /\ k_wres.tag = "Ok") =>
          k_out = magic \o <<0, 2, 0, KEYHEADER>>
                    \o key.box_pk \o key.box_sk \o key.sign_pk \o key.sign_sk
    /\ (k_pc \in {"read", "readfail"} /\ k_writer = "Key" /\ k_wres.tag = "Ok") =>
          /\ k_pc = "read"
          /\ k_res.tag = "Ok"
          /\ key2.box_pk = key.box_pk
          /\ key2.box_sk = key.box_sk
          /\ key2.sign_pk = key.sign_pk
          /\ key2.sign_sk = key.sign_sk

C4_Witness ==
    /\ k_pc = "read" /\ k_writer = "Key" /\ k_wres.tag = "Ok"
    /\ key2 = key
    /\ key.box_pk # key.sign_pk
    /\ key.box_pk # key.box_sk

(***************************************************************************)
(* encrypt.                                                                *)
(*                                                                         *)
(* The source in_data holds in_len bytes; its byte at offset i is written  *)
(* Seg(i, 1), and a buffer region is a sequence of segments: Seg(o, l) is  *)
(* the source bytes o .. o + l - 1 and Seg(-1, l) is l zero bytes.         *)
(* encrypt never looks at the data bytes, only moves them.                 *)
(***************************************************************************)
Seg(src, len) == [src |-> src, len |-> len]

RECURSIVE SegLen(_)
SegLen(segs) == IF segs = <<>> THEN 0 ELSE Head(segs).len + SegLen(Tail(segs))

\* the first n bytes of a region
RECURSIVE TakeBytes(_, _)
TakeBytes(segs, n) ==
    IF n <= 0 \/ segs = <<>> THEN <<>>
    ELSE LET h == Head(segs) IN
         IF h.len <= n THEN <<h>> \o TakeBytes(Tail(segs), n - h.len)
         ELSE <<Seg(h.src, n)>>

\* a region without its first n bytes
RECURSIVE DropBytes(_, _)
DropBytes(segs, n) ==
    IF segs = <<>> THEN <<>>
    ELSE IF n <= 0 THEN segs
    ELSE LET h == Head(segs) IN
         IF h.len <= n THEN DropBytes(Tail(segs), n - h.len)
         ELSE <<Seg(IF h.src < 0 THEN h.src ELSE h.src + n, h.len - n)>> \o Tail(segs)

\* adjacent segments that continue each other are one segment
RECURSIVE Norm(_)
Norm(segs) ==
    IF Len(segs) <= 1 THEN segs
    ELSE LET a == segs[1]
             b == segs[2]
         IN  IF (a.src < 0 /\ b.src < 0) \/ (a.src >= 0 /\ b.src = a.src + a.len)
             THEN Norm(<<Seg(a.src, a.len + b.len)>> \o SubSeq(segs, 3, Len(segs)))
             ELSE <<a>> \o Norm(Tail(segs))

\* r.read(buf) copied source bytes off .. off + k - 1 to offset at of the region
Overwrite(segs, at, off, k) ==
    Norm(TakeBytes(segs, at) \o <<Seg(off, k)>> \o DropBytes(segs, at + k))

Min(a, b) == IF a <= b THEN a ELSE b

\* lengths of the sources explored
SourceLens ==
    {c * READ_SZ + d : c \in 0..MaxChunks, d \in {0, 1, READ_SZ - 1}}

\* nonces CryptoBoxNonce::new() may return in encrypt (a sample)
EncNonces ==
    {[i \in 1..NONCEBYTES |-> IF i = 1 THEN a ELSE t] :
        a \in {254, 255}, t \in {255}}

\* read_exact_or_eof: buf = &mut buf[n_read..] -- where the next read lands
\* (faulty variant: the slice is never advanced)
BufStart_fixed(n) == 0
BufStart(n) == n

(***************************************************************************)
(* What one r.read(buf) may return, buf being buflen bytes long: nothing   *)
(* for an empty buffer or an exhausted source; otherwise all that fits,    *)
(* or less (a short read), or -- from a flaky source -- zero bytes although*)
(* data remains.  A lying source may also claim more bytes than the buffer *)
(* holds (LyingSize), which the slicing buf[n_read..] answers by a panic.  *)
(***************************************************************************)
ReadSizes(buflen, remaining, kind, shorts, zeros) ==
    LET m == Min(buflen, remaining) IN
    IF m = 0 THEN {0}
    ELSE {m}
         \cup (IF shorts < MaxShortReads
               THEN {k \in {1, m \div 2} : 1 <= k /\ k < m} ELSE {})
         \cup (IF kind = "flaky" /\ zeros < MaxZeroReads THEN {0} ELSE {})

LyingSize(buflen) == buflen + 1

\* the `?` operator: whether a failed call makes the function return
\* (faulty variant: the error is dropped)
Propagate_ignored(ok) == FALSE
Propagate(ok) == ~ok

\* the lengths crypto_box sees
PlainLen(pt) == Len(pt.head) + SegLen(pt.data)
CipherLen == BUF_SZ

\* crypto_box: the symbolic sealed box of m under (n, pk, sk).  The primitive
\* behind it (and behind crypto_box_keypair) is taken to return 0, as it
\* does for every m.len() >= CRYPTO_BOX_ZEROBYTES.
crypto_box(m, n, pk, sk) == [sealed |-> TRUE, m |-> m, n |-> n, pk |-> pk, sk |-> sk]

\* the assert!s on the encrypt path
AssertNames == {"n <= 0xffff", "c.len() >= m.len()", "m.len() >= ZEROBYTES", "m[i] == 0"}

\* the assertion of crypto_box or of encrypt that fails, or "none"
SealAsserts(n, pt) ==
    IF ~(n <= 65535) THEN "n <= 0xffff"
    ELSE IF ~(CipherLen >= PlainLen(pt)) THEN "c.len() >= m.len()"
    ELSE IF ~(PlainLen(pt) >= CRYPTO_BOX_ZEROBYTES) THEN "m.len() >= ZEROBYTES"
    ELSE IF \E i \in 1..CRYPTO_BOX_ZEROBYTES : pt.head[i] # 0 THEN "m[i] == 0"
    ELSE "none"

\* where encrypt stores the size bytes (1-based index of sz_hi)
\* (faulty variant: one byte early, inside the zero padding)
SzIndex_early == CRYPTO_BOX_ZEROBYTES
SzIndex == CRYPTO_BOX_ZEROBYTES + 1

\* leaving encrypt (return or unwinding): ephemeral_sk is dropped
Leave(res) ==
    /\ pc' = "done"
    /\ result' = res
    /\ released' = released \cup
          {Released("encrypt", "CryptoBoxSk", CryptoBoxSk_drop(ephemeral_sk))}
    /\ ephemeral_sk' = <<>>

InitEnc ==
    /\ pc = "start"
    /\ in_len \in SourceLens /\ in_pos = 0 /\ in_kind \in {"plain", "flaky", "lying"}
    /\ short_reads = 0 /\ zero_reads = 0
    /\ plain_text = [head |-> <<>>, data |-> <<>>]
    /\ cipher_text = ZeroBox
    /\ nonce = <<>> /\ nonce0 = <<>> /\ ephemeral_pk = <<>> /\ ephemeral_sk = <<>>
    /\ toKey = KeyBytes(3, BOX_PUBLICKEYBYTES)
    /\ n_acc = 0 /\ out_data = [pre |-> <<>>, recs |-> <<>>] /\ boxed = <<>>
    /\ result = NoResult /\ io_err = NoErr /\ io_site = "none" /\ panicked = "none"
    /\ IdleHdr /\ IdleNonce /\ IdleKey /\ released = {}

\* lines 209-214: the buffers, the nonce, the ephemeral keypair
EncStart ==
    /\ pc = "start"
    /\ plain_text' = [head |-> Zeros(CRYPTO_BOX_ZEROBYTES + 2),
                      data |-> <<Seg(-1, READ_SZ)>>]
    /\ cipher_text' = ZeroBox
    /\ \E n \in EncNonces : nonce' = n /\ nonce0' = n
    /\ \E s \in KeySeeds :
         /\ ephemeral_pk' = KeyBytes(s + 4, BOX_PUBLICKEYBYTES)
         /\ ephemeral_sk' = KeyBytes(s + 8, BOX_SECRETKEYBYTES)
    /\ pc' = "header"
    /\ UNCHANGED <<in_len, in_pos, in_kind, short_reads, zero_reads, toKey, n_acc,
                   out_data, boxed, result, io_err, io_site, panicked,
                   hdrVars, nonceVars, keyVars, released>>

\* write_header(out_data, CIPHERTEXTHEADER)?
EncWriteHeader ==
    /\ pc = "header"
    /\ \E f \in 0..2 :
         \E o \in IF f = 0 THEN {WriteOk} ELSE WriteOutcomes(KeyPartLen(f)) \ {WriteOk} :
           LET w == write_header(CIPHERTEXTHEADER, OutcomeAt(f, 1, o), OutcomeAt(f, 2, o))
           IN  /\ out_data' = [out_data EXCEPT !.pre = @ \o w.bytes]
               /\ io_err' = IF o.ok THEN io_err ELSE o.err
               /\ io_site' = IF o.ok THEN io_site ELSE "header"
               /\ IF Propagate(w.res.tag = "Ok")
                  THEN Leave(w.res)
                  ELSE /\ pc' = "pk"
                       /\ UNCHANGED <<result, released, ephemeral_sk>>
    /\ UNCHANGED <<in_len, in_pos, in_kind, short_reads, zero_reads, plain_text,
                   cipher_text, nonce, nonce0, ephemeral_pk, toKey, n_acc, boxed,
                   panicked, hdrVars, nonceVars, keyVars>>

\* out_data.write_all(&ephemeral_pk.bytes)?
EncWritePk ==
    /\ pc = "pk"
    /\ \E o \in WriteOutcomes(BOX_PUBLICKEYBYTES) :
         /\ out_data' = [out_data EXCEPT !.pre = @ \o Accepted(ephemeral_pk, o)]
         /\ io_err' = IF o.ok THEN io_err ELSE o.err
         /\ io_site' = IF o.ok THEN io_site ELSE "pk"
         /\ IF Propagate(o.ok)
            THEN Leave(Err(o.err))
            ELSE /\ pc' = "nonce"
                 /\ UNCHANGED <<result, released, ephemeral_sk>>
    /\ UNCHANGED <<in_len, in_pos, in_kind, short_reads, zero_reads, plain_text,
                   cipher_text, nonce, nonce0, ephemeral_pk, toKey, n_acc, boxed,
                   panicked, hdrVars, nonceVars, keyVars>>

\* out_data.write_all(&nonce.bytes)?
EncWriteNonce ==
    /\ pc = "nonce"
    /\ \E o \in WriteOutcomes(NONCEBYTES) :
         /\ out_data' = [out_data EXCEPT !.pre = @ \o Accepted(nonce, o)]
         /\ io_err' = IF o.ok THEN io_err ELSE o.err
         /\ io_site' = IF o.ok THEN io_site ELSE "nonce"
         /\ IF Propagate(o.ok)
            THEN Leave(Err(o.err))
            ELSE /\ pc' = "read"
                 /\ UNCHANGED <<result, released, ephemeral_sk>>
    /\ UNCHANGED <<in_len, in_pos, in_kind, short_reads, zero_reads, plain_text,
                   cipher_text, nonce, nonce0, ephemeral_pk, toKey, n_acc, boxed,
                   panicked, hdrVars, nonceVars, keyVars>>

\* one r.read(buf)? of read_exact_or_eof, and what follows a zero-byte read:
\* read_exact_or_eof returns n, and encrypt breaks on 0 or goes on to seal
EncRead ==
    /\ pc = "read"
    /\ LET at     == BufStart(n_acc)
           buflen == IF at <= READ_SZ THEN READ_SZ - at ELSE 0
           m      == Min(buflen, in_len - in_pos)
       IN
       \/ \E e \in ReadErrors :
            /\ io_err' = e
            /\ io_site' = "read"
            /\ IF Propagate(FALSE)
               THEN /\ Leave(Err(e))
                    /\ UNCHANGED <<short_reads>>
               ELSE /\ pc' = IF n_acc = 0 THEN "done" ELSE "seal"
                    /\ result' = IF n_acc = 0 THEN Ok(0) ELSE result
                    /\ UNCHANGED <<short_reads, released, ephemeral_sk>>
            /\ UNCHANGED <<in_pos, zero_reads, plain_text, n_acc, panicked>>
       \/ \E k \in ReadSizes(buflen, in_len - in_pos, in_kind, short_reads, zero_reads) :
            /\ k > 0
            /\ n_acc' = n_acc + k
            /\ plain_text' = [plain_text EXCEPT !.data = Overwrite(@, at, in_pos, k)]
            /\ in_pos' = in_pos + k
            /\ short_reads' = IF k < m THEN short_reads + 1 ELSE short_reads
            /\ UNCHANGED <<pc, result, released, ephemeral_sk, zero_reads,
                           io_err, io_site, panicked>>
       \/ /\ 0 \in ReadSizes(buflen, in_len - in_pos, in_kind, short_reads, zero_reads)
          /\ zero_reads' = IF m > 0 THEN zero_reads + 1 ELSE zero_reads
          /\ IF n_acc = 0
             THEN Leave(Ok(0))
             ELSE /\ pc' = "seal"
                  /\ UNCHANGED <<result, released, ephemeral_sk>>
          /\ UNCHANGED <<in_pos, short_reads, plain_text, n_acc, io_err, io_site,
                         panicked>>
       \/ /\ in_kind = "lying"
          /\ LyingSize(buflen) > buflen
          /\ n_acc' = n_acc + LyingSize(buflen)
          /\ panicked' = "range start index out of range"
          /\ Leave(NoResult)
          /\ UNCHANGED <<in_pos, short_reads, zero_reads, plain_text, io_err, io_site>>
    /\ UNCHANGED <<in_len, in_kind, cipher_text, nonce, nonce0, ephemeral_pk, toKey,
                   out_data, boxed, hdrVars, nonceVars, keyVars>>

\* lines 227-237: the size bytes and crypto_box, with their assertions
EncSeal ==
    /\ pc = "seal"
    /\ LET sz == u16_be_bytes(n_acc % 65536)
           pt == IF n_acc <= 65535
                 THEN [plain_text EXCEPT !.head[SzIndex] = sz[1],
                                         !.head[SzIndex + 1] = sz[2]]
                 ELSE plain_text
           a  == SealAsserts(n_acc, pt)
       IN  /\ plain_text' = pt
           /\ panicked' = a
           /\ IF a # "none"
              THEN /\ Leave(NoResult)
                   /\ UNCHANGED <<cipher_text, boxed>>
              ELSE /\ cipher_text' = crypto_box(pt, nonce, toKey, ephemeral_sk)
                   /\ boxed' = Append(boxed, crypto_box(pt, nonce, toKey, ephemeral_sk))
                   /\ pc' = "write_rec"
                   /\ UNCHANGED <<result, released, ephemeral_sk>>
    /\ UNCHANGED <<in_len, in_pos, in_kind, short_reads, zero_reads, nonce, nonce0,
                   ephemeral_pk, toKey, n_acc, out_data, io_err, io_site,
                   hdrVars, nonceVars, keyVars>>

\* out_data.write_all(&mut cipher_text[CRYPTO_BOX_BOXZEROBYTES..])?
EncWriteRecord ==
    /\ pc = "write_rec"
    /\ \E o \in WriteOutcomes(CipherLen - CRYPTO_BOX_BOXZEROBYTES) :
         LET got == IF o.ok THEN CipherLen - CRYPTO_BOX_BOXZEROBYTES ELSE o.n IN
         /\ out_data' = IF got = 0 THEN out_data
                        ELSE [out_data EXCEPT
                                !.recs = Append(@, [box |-> cipher_text, len |-> got])]
         /\ io_err' = IF o.ok THEN io_err ELSE o.err
         /\ io_site' = IF o.ok THEN io_site ELSE "record"
         /\ IF Propagate(o.ok)
            THEN Leave(Err(o.err))
            ELSE /\ pc' = "inc"
                 /\ UNCHANGED <<result, released, ephemeral_sk>>
    /\ UNCHANGED <<in_len, in_pos, in_kind, short_reads, zero_reads, plain_text,
                   cipher_text, nonce, nonce0, ephemeral_pk, toKey, n_acc, boxed,
                   panicked, hdrVars, nonceVars, keyVars>>

\* nonce.inc(), and the loop goes round: read_exact_or_eof starts with n = 0
EncInc ==
    /\ pc = "inc"
    /\ nonce' = inc(nonce)
    /\ n_acc' = 0
    /\ pc' = "read"
    /\ UNCHANGED <<in_len, in_pos, in_kind, short_reads, zero_reads, plain_text,
                   cipher_text, nonce0, ephemeral_pk, ephemeral_sk, toKey, out_data,
                   boxed, result, io_err, io_site, panicked,
                   hdrVars, nonceVars, keyVars, released>>

NextEnc ==
    \/ EncStart \/ EncWriteHeader \/ EncWritePk \/ EncWriteNonce
    \/ EncRead \/ EncSeal \/ EncWriteRecord \/ EncInc
Spec == InitEnc /\ [][NextEnc]_vars

\* keys and encrypt together: every place a secret key buffer is released
InitSecrets == InitKey \/ InitEnc
NextSecrets ==
    \/ KeyWrite \/ PubKeyWrite \/ KeyReadBoxedFrom \/ KeyDrop
    \/ EncStart \/ EncWriteHeader \/ EncWritePk \/ EncWriteNonce
    \/ EncRead \/ EncSeal \/ EncWriteRecord \/ EncInc
SpecSecrets == InitSecrets /\ [][NextSecrets]_vars

(***************************************************************************)
(* Claims about encrypt and about the secret keys.                         *)
(***************************************************************************)
RECURSIVE IncTimes(_, _)
IncTimes(n, k) == IF k = 0 THEN n ELSE IncTimes(inc(n), k - 1)

PreambleLen == 13 + BOX_PUBLICKEYBYTES + NONCEBYTES
CiphertextHeader == magic \o <<0, 2, 0, CIPHERTEXTHEADER>>

\* C1: within one call of encrypt the nonce written to the sink after the
\* ephemeral public key is the one that seals the first chunk, the k-th
\* chunk is sealed under that nonce advanced k times by inc, no two chunks
\* are sealed under the same nonce, and all are sealed under the one
\* ephemeral secret key.
C1_DistinctNonces ==
    /\ Len(out_data.pre) >= PreambleLen =>
          SubSeq(out_data.pre, 14 + BOX_PUBLICKEYBYTES, PreambleLen) = nonce0
    /\ \A k \in 1..Len(boxed) :
          /\ boxed[k].n = IncTimes(nonce0, k - 1)
          /\ boxed[k].sk = boxed[1].sk
          /\ pc # "done" => boxed[k].sk = ephemeral_sk
    /\ boxed # <<>> =>
          /\ Len(out_data.pre) = PreambleLen
          /\ boxed[1].n = SubSeq(out_data.pre, 14 + BOX_PUBLICKEYBYTES, PreambleLen)
    /\ \A i \in 1..Len(boxed) : \A j \in 1..Len(boxed) :
          i # j => boxed[i].n # boxed[j].n

C1_Witness ==
    /\ Len(boxed) >= 3
    /\ boxed[1].n = [i \in 1..NONCEBYTES |-> 255]
    /\ boxed[2].n = Zeros(NONCEBYTES)

\* the length prefix a sealed record carries
PrefixOf(box) == 256 * box.m.head[CRYPTO_BOX_ZEROBYTES + 1]
                   + box.m.head[CRYPTO_BOX_ZEROBYTES + 2]
NChunks(L) == (L + READ_SZ - 1) \div READ_SZ

\* C2: for a source of length L that delivers its bytes in reads of nonzero
\* sizes and then reports its end, encrypt writes the ciphertext header, the
\* ephemeral public key and the nonce, then exactly ceil(L / 16384) sealed
\* records: all but possibly the last carry length prefix 16384, the last
\* carries L mod 16384 when that is nonzero, the prefixed segments in order
\* are the source, and no record carries length 0.
C2_ChunkFraming ==
    (pc = "done" /\ in_kind = "plain" /\ result.tag = "Ok") =>
        /\ out_data.pre = CiphertextHeader \o ephemeral_pk \o nonce0
        /\ Len(out_data.recs) = NChunks(in_len)
        /\ in_pos = in_len
        /\ \A i \in 1..Len(out_data.recs) :
              LET r == out_data.recs[i]
                  n == PrefixOf(r.box)
              IN  /\ r.box.sealed
                  /\ r.box = boxed[i]
                  /\ r.len = BUF_SZ - CRYPTO_BOX_BOXZEROBYTES
                  /\ n = IF i < NChunks(in_len) \/ in_len % READ_SZ = 0
                         THEN READ_SZ ELSE in_len % READ_SZ
                  /\ n > 0
                  /\ TakeBytes(r.box.m.data, n) = <<Seg((i - 1) * READ_SZ, n)>>

C2_Witness ==
    /\ pc = "done" /\ in_kind = "plain" /\ result.tag = "Ok"
    /\ in_len = 2 * READ_SZ + 1
    /\ Len(out_data.recs) = 3
    /\ PrefixOf(out_data.recs[3].box) = 1

\* C5 as stated: when encrypt returns an error raised while writing the
\* ciphertext header, the sink has received no bytes from this call.
C5_NoPartialOutput ==
    (pc = "done" /\ result.tag = "Err" /\ io_site = "header") =>
        out_data = [pre |-> <<>>, recs |-> <<>>]

\* C5 amended: when encrypt returns an error raised while writing the
\* ciphertext header, the sink has received only a proper prefix (0 to 12
\* bytes) of the 13-byte header: no ephemeral key, no nonce, no record.
C5_HeaderFailurePrefix ==
    (pc = "done" /\ result.tag = "Err" /\ io_site = "header") =>
        /\ out_data.recs = <<>>
        /\ Len(out_data.pre) < 13
        /\ out_data.pre = SubSeq(CiphertextHeader, 1, Len(out_data.pre))
        /\ boxed = <<>>

C5_Witness ==
    /\ pc = "done" /\ result.tag = "Err" /\ io_site = "header"
    /\ Len(out_data.pre) = 12

\* C6: once a write to the sink or a read from the source fails, encrypt
\* returns that error at once: no further read, seal, nonce advance or write
\* follows, and it never returns Ok after the failure.
C6_AbortOnIoError ==
    [][/\ io_err' # NoErr => (pc' = "done" /\ result' = Err(io_err'))
       /\ io_err # NoErr =>
             UNCHANGED <<in_pos, n_acc, out_data, nonce, boxed, result, io_err>>]_vars

C6_Witness ==
    /\ pc = "done" /\ io_err # NoErr /\ io_site = "record"
    /\ result = Err(io_err)
    /\ Len(boxed) = 2 /\ Len(out_data.recs) = 2
    /\ out_data.recs[2].len = 1

C10_NoAssertionFails ==
    /\ panicked \notin AssertNames
    /\ pc = "seal" => (1 <= n_acc /\ n_acc <= READ_SZ)
    /\ READ_SZ <= 65535
    /\ pc \in {"write_rec", "inc"} =>
          LET m == boxed[Len(boxed)].m IN
          /\ 1 <= n_acc /\ n_acc <= READ_SZ
          /\ PrefixOf(boxed[Len(boxed)]) = n_acc
          /\ \A i \in 1..CRYPTO_BOX_ZEROBYTES : m.head[i] = 0
          /\ CipherLen >= PlainLen(m)
          /\ PlainLen(m) = BUF_SZ

\* a flaky source gave a zero-byte read mid-stream and more data afterwards
C10_Witness ==
    /\ pc = "write_rec" /\ in_kind = "flaky" /\ zero_reads > 0
    /\ Len(boxed) = 2
    /\ PrefixOf(boxed[1]) < READ_SZ
    /\ PrefixOf(boxed[2]) = READ_SZ
    /\ panicked = "none"

====
